---- MODULE Spec2Model ----
(***************************************************************************)
(* EncryptedSession (src/src/index.ts): an encrypted, expirable session    *)
(* value kept in a cookie.                                                  *)
(*                                                                          *)
(*   session <--> expirableBox <--> encryptedBox <--> base64 <--> cookie    *)
(*                                                                          *)
(* JavaScript values, byte strings and cookie texts are symbolic terms      *)
(* (records tagged by the field t).  AES-GCM and PBKDF2 are modelled as     *)
(* ideal primitives: a ciphertext opens only under the key and the iv it    *)
(* was sealed with, and a derived key is determined by (secret, salt).      *)
(* Instants are milliseconds since the epoch, written <<hi, lo>> for        *)
(* hi * 10^9 + lo, because Number.MAX_SAFE_INTEGER exceeds a 32-bit integer.*)
(***************************************************************************)
EXTENDS Integers, Sequences, FiniteSets, TLC

\* ------------------------------------------------------------------ bounds

\* The clock runs over the instants k*1000 - 1, k*1000, k*1000 + 1 for
\* k in 1..MaxSec, the instant 0, and the largest instant a Date can hold.
MaxSec == 1

\* Calls of get, mustGet, set and delete a behaviour contains.
MaxCalls == 3

\* Calls in flight at once on one handle.
MaxTasks == 2

\* ------------------------------------------------------------------ instants

Limb == 10^9

Ms(n) == <<n \div Limb, n % Limb>>

TimeAdd(a, b) == <<a[1] + b[1] + ((a[2] + b[2]) \div Limb), (a[2] + b[2]) % Limb>>

TimeLess(a, b) == a[1] < b[1] \/ (a[1] = b[1] /\ a[2] < b[2])

TimeLeq(a, b) == ~TimeLess(b, a)

\* Number.MAX_SAFE_INTEGER = 2^53 - 1 = 9007199254740991
MAX_SAFE_INTEGER == <<9007199, 254740991>>

\* The largest time value of a Date, 8.64e15 ms: Date.now() never exceeds it.
MaxDate == <<8640000, 0>>

Times ==
    {Ms(0), MaxDate}
        \cup {Ms(k * 1000 + d) : k \in 1..MaxSec, d \in {-1, 0, 1}}

\* ------------------------------------------------------------------ values

Undefined == [t |-> "undefined"]

Null == [t |-> "null"]

Num(n) == [t |-> "number", n |-> n]

\* A plain object that is not a box; what names its content.
Obj(what) == [t |-> "object", what |-> what]

DateOf(ms) == [t |-> "Date", ms |-> ms]

Bool(b) == [t |-> "boolean", b |-> b]

\* A non-empty text.
Text(s) == [t |-> "string", chars |-> "text", s |-> s]

\* !x of JavaScript: undefined, null, false, 0 and the empty string are
\* falsy.
Falsy(x) ==
    \/ x.t \in {"undefined", "null"}
    \/ x.t = "boolean" /\ ~x.b
    \/ x.t = "number" /\ x.n = Ms(0)
    \/ x.t = "string" /\ x.chars = "empty"

\* x.name of JavaScript on a value that is neither null nor undefined.
Prop(x, name) == IF name \in DOMAIN x /\ x.t = "object" THEN x[name] ELSE Undefined

\* ------------------------------------------------------------------ bytes

RandomBytes(len, id) == [t |-> "Uint8Array", kind |-> "random", len |-> len, id |-> id]

\* Bytes that are no msgpack encoding of a single value (truncated, an
\* unassigned type byte, trailing bytes); id tells them apart.
InvalidBytes(id) == [t |-> "Uint8Array", kind |-> "invalid", id |-> id]

EmptyBytes == InvalidBytes("empty")

IsUint8Array(x) == x.t = "Uint8Array"

\* ------------------------------------------------------------------ msgpack

\* What @msgpack/msgpack keeps of a value: undefined is written as nil, at
\* the top level and as the value of an object's key alike, so it reads back
\* as null.  Byte strings, numbers, texts and other objects read back equal.
PayloadRepr(v) ==
    IF v.t = "undefined" THEN Null
    ELSE IF v.t = "object" /\ DOMAIN v = {"t", "what"} /\ v.what = "aUndefined"
        THEN Obj("aNull")
    ELSE v

\* The same, one level down for the expirable box {exp, val}.
MsgPackRepr(v) ==
    IF v.t = "object" /\ "val" \in DOMAIN v
    THEN [v EXCEPT !.val = PayloadRepr(v.val)]
    ELSE PayloadRepr(v)

msgPackEncode(v) == [t |-> "Uint8Array", kind |-> "msgpack", v |-> MsgPackRepr(v)]

\* decode throws (a RangeError or a DecodeError of the library) on bytes
\* that are not the encoding of exactly one value.
msgPackDecode(bytes) ==
    IF bytes.kind = "msgpack" THEN [ok |-> TRUE, v |-> bytes.v] ELSE [ok |-> FALSE]

\* ------------------------------------------------------------------ base64

EmptyString == [t |-> "string", chars |-> "empty"]

\* fromUint8Array: the base64 text of the bytes.
base64Encode(bytes) == [t |-> "string", chars |-> "base64", of |-> bytes]

\* A text holding characters outside the base64 alphabet; of is what its
\* alphabet characters, taken alone, stand for.
MixedText(bytes) == [t |-> "string", chars |-> "mixed", of |-> bytes]

\* toUint8Array drops every character outside the alphabet and decodes the
\* rest: it never throws, and a text with no alphabet character gives no bytes.
base64Decode(text) == IF text.chars = "empty" THEN EmptyBytes ELSE text.of

\* ------------------------------------------------------------------ crypto

\* crypto.subtle.importKey("raw", utf8(rootKeyRaw), "PBKDF2", ...)
importKey(rootKeyRaw) == [t |-> "CryptoKey", raw |-> rootKeyRaw]

\* crypto.subtle.deriveKey(PBKDF2-HMAC-SHA-256, salt, 100000 iterations)
deriveKey(rootKey, salt) == [root |-> rootKey.raw, salt |-> salt]

\* crypto.subtle.encrypt(AES-GCM, iv): ciphertext and tag.
encrypt(key, iv, plaintext) ==
    [t |-> "Uint8Array", kind |-> "aesgcm", key |-> key, iv |-> iv,
     pt |-> plaintext, flipped |-> FALSE]

\* decrypt returning the plaintext without verifying the tag.
decrypt_IgnoresTag(key, iv, data) ==
    IF data.kind = "aesgcm" THEN [ok |-> TRUE, pt |-> data.pt] ELSE [ok |-> FALSE]

\* crypto.subtle.decrypt(AES-GCM, iv): the tag verifies only for the
\* unaltered ciphertext under the key and the iv that sealed it; otherwise
\* an OperationError is thrown.
decrypt(key, iv, data) ==
    IF data.kind = "aesgcm" /\ ~data.flipped /\ data.key = key /\ data.iv = iv
    THEN [ok |-> TRUE, pt |-> data.pt]
    ELSE [ok |-> FALSE]

\* ------------------------------------------------------------------ transport

\* The cookie (name, domain, path) the configured attributes address is the
\* one hono/cookie addresses with no attribute given: no Domain, Path=/.
DefaultScope(cookieOptions) ==
    /\ cookieOptions.domain = Undefined
    /\ cookieOptions.path \in {Undefined, Text("/")}

\* setCookie(ctx, name, value, cookieOptions): a Set-Cookie header with the
\* configured attributes; what the client's jar holds under the configured
\* scope once it has the response.  Max-Age=0 makes the client drop the cookie.
setCookie(jar, value, cookieOptions) ==
    IF cookieOptions.maxAge = Num(Ms(0)) THEN Undefined ELSE value

\* deleteCookie(ctx, name): Set-Cookie: name=; Max-Age=0; Path=/ and no
\* Domain.  It removes the cookie of that scope and no other.
deleteCookie(jar, cookieOptions) ==
    IF DefaultScope(cookieOptions) THEN Undefined ELSE jar

\* ------------------------------------------------------------------ EncryptedSession

Thrown(kind, rootKey, deleted) ==
    [kind |-> kind, val |-> Undefined, deleted |-> deleted, rootKey |-> rootKey]

Returned(val, rootKey) ==
    [kind |-> "value", val |-> val, deleted |-> FALSE, rootKey |-> rootKey]

\* _deriveKey deriving from one fixed salt, whatever salt it is given.
_deriveKey_FixedSalt(this, salt, importable) ==
    IF Falsy(this.rootKey) /\ ~importable
    THEN [ok |-> FALSE, rootKey |-> this.rootKey]
    ELSE LET rootKey == IF Falsy(this.rootKey) THEN importKey(this.rootKeyRaw)
                        ELSE this.rootKey
         IN [ok |-> TRUE, key |-> deriveKey(rootKey, RandomBytes(16, 1)),
             rootKey |-> rootKey]

\* _deriveKey importing a key that does not depend on the handle's secret.
_deriveKey_SharedSecret(this, salt, importable) ==
    IF Falsy(this.rootKey) /\ ~importable
    THEN [ok |-> FALSE, rootKey |-> this.rootKey]
    ELSE LET rootKey == IF Falsy(this.rootKey) THEN importKey("A")
                        ELSE this.rootKey
         IN [ok |-> TRUE, key |-> deriveKey(rootKey, salt), rootKey |-> rootKey]

\* _deriveKey(salt): imports the root key on first use and caches it on the
\* handle; importable says whether importKey resolves on this platform.
_deriveKey(this, salt, importable) ==
    IF Falsy(this.rootKey) /\ ~importable
    THEN [ok |-> FALSE, rootKey |-> this.rootKey]
    ELSE LET rootKey == IF Falsy(this.rootKey) THEN importKey(this.rootKeyRaw)
                        ELSE this.rootKey
         IN [ok |-> TRUE, key |-> deriveKey(rootKey, salt), rootKey |-> rootKey]

\* expirableBox.exp <= Date.now(): a box is expired already at its expiry.
isExpired_AtExpiry(exp, now) == TimeLeq(exp, now)

\* expirableBox.exp < Date.now()
isExpired(exp, now) == TimeLess(exp, now)

\* mustGet() rejecting only a box whose val is undefined, not every empty val.
mustGet_ValUndefinedOnly(this, cookie, now, importable) ==
    IF Falsy(cookie) THEN Thrown("NotFound", this.rootKey, FALSE)
    ELSE LET outer == msgPackDecode(base64Decode(cookie)) IN
    IF ~outer.ok THEN Thrown("DecodeFault", this.rootKey, FALSE)
    ELSE LET encryptedBox == outer.v IN
    IF Falsy(encryptedBox) THEN Thrown("NotFound", this.rootKey, FALSE)
    ELSE IF ~IsUint8Array(Prop(encryptedBox, "iv"))
        THEN Thrown("Malformed", this.rootKey, FALSE)
    ELSE IF ~IsUint8Array(Prop(encryptedBox, "enc"))
        THEN Thrown("Malformed", this.rootKey, FALSE)
    ELSE IF ~IsUint8Array(Prop(encryptedBox, "salt"))
        THEN Thrown("Malformed", this.rootKey, FALSE)
    ELSE LET derived == _deriveKey(this, encryptedBox.salt, importable) IN
    IF ~derived.ok THEN Thrown("ConfigurationError", derived.rootKey, FALSE)
    ELSE LET decrypted == decrypt(derived.key, encryptedBox.iv, encryptedBox.enc) IN
    IF ~decrypted.ok THEN Thrown("Unauthenticated", derived.rootKey, FALSE)
    ELSE LET inner == msgPackDecode(decrypted.pt) IN
    IF ~inner.ok THEN Thrown("DecodeFault", derived.rootKey, FALSE)
    ELSE LET expirableBox == inner.v IN
    IF Falsy(expirableBox) THEN Thrown("NotFound", derived.rootKey, FALSE)
    ELSE IF Prop(expirableBox, "exp").t # "number"
        THEN Thrown("Malformed", derived.rootKey, FALSE)
    ELSE IF isExpired(expirableBox.exp.n, now)
        THEN Thrown("Expired", derived.rootKey, TRUE)
    ELSE IF Prop(expirableBox, "val").t = "undefined"
        THEN Thrown("Malformed", derived.rootKey, FALSE)
    ELSE Returned(expirableBox.val, derived.rootKey)

\* mustGet() on the cookie getCookie returned, at the instant now.  kind is
\*   "value"            the value is returned
\*   "NotFound"         Error("session not found...")
\*   "Malformed"        Error("session malformed...")
\*   "Expired"          Error("session expired"), after this.delete()
\*   "Unauthenticated"  the OperationError of crypto.subtle.decrypt
\*   "DecodeFault"      the RangeError/DecodeError of msgPackDecode
\*   "ConfigurationError"  the rejection of importKey
\* deleted says whether this.delete() was called, rootKey is the cache after.
mustGet(this, cookie, now, importable) ==
    IF Falsy(cookie) THEN Thrown("NotFound", this.rootKey, FALSE)
    ELSE LET outer == msgPackDecode(base64Decode(cookie)) IN
    IF ~outer.ok THEN Thrown("DecodeFault", this.rootKey, FALSE)
    ELSE LET encryptedBox == outer.v IN
    IF Falsy(encryptedBox) THEN Thrown("NotFound", this.rootKey, FALSE)
    ELSE IF ~IsUint8Array(Prop(encryptedBox, "iv"))
        THEN Thrown("Malformed", this.rootKey, FALSE)
    ELSE IF ~IsUint8Array(Prop(encryptedBox, "enc"))
        THEN Thrown("Malformed", this.rootKey, FALSE)
    ELSE IF ~IsUint8Array(Prop(encryptedBox, "salt"))
        THEN Thrown("Malformed", this.rootKey, FALSE)
    ELSE LET derived == _deriveKey(this, encryptedBox.salt, importable) IN
    IF ~derived.ok THEN Thrown("ConfigurationError", derived.rootKey, FALSE)
    ELSE LET decrypted == decrypt(derived.key, encryptedBox.iv, encryptedBox.enc) IN
    IF ~decrypted.ok THEN Thrown("Unauthenticated", derived.rootKey, FALSE)
    ELSE LET inner == msgPackDecode(decrypted.pt) IN
    IF ~inner.ok THEN Thrown("DecodeFault", derived.rootKey, FALSE)
    ELSE LET expirableBox == inner.v IN
    IF Falsy(expirableBox) THEN Thrown("NotFound", derived.rootKey, FALSE)
    ELSE IF Prop(expirableBox, "exp").t # "number"
        THEN Thrown("Malformed", derived.rootKey, FALSE)
    ELSE IF isExpired(expirableBox.exp.n, now)
        THEN Thrown("Expired", derived.rootKey, TRUE)
    ELSE IF Falsy(Prop(expirableBox, "val"))
        THEN Thrown("Malformed", derived.rootKey, FALSE)
    ELSE Returned(expirableBox.val, derived.rootKey)

\* get() without its return: the value mustGet() resolved to is dropped.
get_NoReturn(this, cookie, now, importable) ==
    [mustGet(this, cookie, now, importable) EXCEPT !.kind = "null", !.val = Null]

\* get() catching only the errors mustGet() throws itself: a fault of
\* msgpack or of crypto.subtle escapes.
get_CatchOwnErrors(this, cookie, now, importable) ==
    LET r == mustGet(this, cookie, now, importable)
    IN IF r.kind \in {"NotFound", "Malformed", "Expired"}
       THEN [r EXCEPT !.kind = "null", !.val = Null]
       ELSE r

\* get(): mustGet() with every error caught and turned into null.
get(this, cookie, now, importable) ==
    LET r == mustGet(this, cookie, now, importable)
    IN IF r.kind = "value" THEN r ELSE [r EXCEPT !.kind = "null", !.val = Null]

\* expiresAt with the largest 32-bit integer, 2^31 - 1, as the sentinel.
expiresAt_Int32Sentinel(cookieOptions, now) ==
    IF ~Falsy(cookieOptions.maxAge)
    THEN TimeAdd(now, Ms(cookieOptions.maxAge.n[2] * 1000))
    ELSE IF ~Falsy(cookieOptions.expires) THEN cookieOptions.expires.ms
    ELSE <<2, 147483647>>

\* The expiry set() stores in the expirable box (maxAge is in seconds; the
\* model's maxAge is below 10^6, so maxAge * 1000 is a single limb).
expiresAt(cookieOptions, now) ==
    IF ~Falsy(cookieOptions.maxAge)
    THEN TimeAdd(now, Ms(cookieOptions.maxAge.n[2] * 1000))
    ELSE IF ~Falsy(cookieOptions.expires) THEN cookieOptions.expires.ms
    ELSE MAX_SAFE_INTEGER

\* set(value) with the random salt and iv drawn: ok says whether the cookie
\* was written, cookie is the text handed to setCookie.
set(this, value, cookieOptions, now, salt, iv, importable) ==
    LET expirableBox == [t |-> "object", exp |-> Num(expiresAt(cookieOptions, now)),
                         val |-> value]
        derived == _deriveKey(this, salt, importable)
    IN IF ~derived.ok THEN [ok |-> FALSE, rootKey |-> derived.rootKey]
       ELSE LET encrypted == encrypt(derived.key, iv, msgPackEncode(expirableBox))
                encryptedBox == [t |-> "object", iv |-> iv, salt |-> salt,
                                 enc |-> encrypted]
            IN [ok |-> TRUE, rootKey |-> derived.rootKey,
                cookie |-> base64Encode(msgPackEncode(encryptedBox))]

\* ------------------------------------------------------------------ universe

Secrets == {"A", "B"}

\* Payloads handed to set: {userId: 42}, {a: undefined} and 0.
Values == {Obj("userId42"), Obj("aUndefined"), Num(Ms(0))}

\* Empty payloads: 0, the empty text, false, null and undefined.
EmptyPayloads == {Num(Ms(0)), EmptyString, Bool(FALSE), Null, Undefined}

\* Values of a 16-byte salt and of a 12-byte iv.
Salts == {RandomBytes(16, 1), RandomBytes(16, 2)}

IVs == {RandomBytes(12, 1), RandomBytes(12, 2)}

\* What the two calls of crypto.getRandomValues in one set() can return.
Draws == {<<RandomBytes(16, i), RandomBytes(12, i)>> : i \in {1, 2}}

\* The cookie attributes a handle can be configured with: every combination
\* of maxAge (none, 0, 1 s) and expires (none, the instant 1000) under the
\* default scope, and maxAge = 1 s under a path or a domain of its own.
CookieOptions ==
    [maxAge : {Undefined, Num(Ms(0)), Num(Ms(1))},
     expires : {Undefined, DateOf(Ms(1000))},
     path : {Undefined},
     domain : {Undefined}]
    \cup
    {[maxAge |-> Num(Ms(1)), expires |-> Undefined, path |-> Text("/app"),
      domain |-> Undefined],
     [maxAge |-> Num(Ms(1)), expires |-> Undefined, path |-> Undefined,
      domain |-> Text("example.com")]}

\* Whether a cookie text decodes to a box with three byte-string fields.
IsBox(cookie) ==
    /\ ~Falsy(cookie)
    /\ msgPackDecode(base64Decode(cookie)).ok
    /\ LET box == msgPackDecode(base64Decode(cookie)).v
       IN /\ box.t = "object"
          /\ {"iv", "salt", "enc"} \subseteq DOMAIN box
          /\ IsUint8Array(box.iv) /\ IsUint8Array(box.enc) /\ IsUint8Array(box.salt)

BoxOf(cookie) == msgPackDecode(base64Decode(cookie)).v

\* Whether a cookie text is as set() writes it: the box of a ciphertext
\* together with the salt and the iv that sealed it.
Sealed(cookie) ==
    /\ IsBox(cookie)
    /\ LET box == BoxOf(cookie)
       IN /\ box.enc.kind = "aesgcm"
          /\ ~box.enc.flipped
          /\ box.enc.key.salt = box.salt
          /\ box.enc.iv = box.iv

\* What a client can make of a cookie set() wrote without knowing the
\* secret: one bit of enc flipped, the salt replaced, or the iv replaced.
Alterations(cookie) ==
    IF ~Sealed(cookie) THEN {}
    ELSE LET box == BoxOf(cookie)
             boxes ==
                 {[box EXCEPT !.salt = x] : x \in Salts \ {box.salt}}
                 \cup {[box EXCEPT !.iv = x] : x \in IVs \ {box.iv}}
                 \cup {[box EXCEPT !.enc.flipped = TRUE]}
         IN {base64Encode(msgPackEncode(b)) : b \in boxes}

\* Cookie texts a client can write from nothing.
Forged ==
    LET salt == RandomBytes(16, 1)
        iv == RandomBytes(12, 1)
        enc == RandomBytes(32, 1)
    IN {EmptyString,
        MixedText(EmptyBytes),
        base64Encode(InvalidBytes("truncated")),
        base64Encode(msgPackEncode(Null)),
        base64Encode(msgPackEncode(Num(Ms(5)))),
        base64Encode(msgPackEncode(Obj("noFields"))),
        base64Encode(msgPackEncode([t |-> "object", iv |-> iv, enc |-> enc])),
        base64Encode(msgPackEncode(
            [t |-> "object", iv |-> Text("iv"), salt |-> salt, enc |-> enc])),
        base64Encode(msgPackEncode(
            [t |-> "object", iv |-> iv, salt |-> salt, enc |-> Text("enc")])),
        base64Encode(msgPackEncode(
            [t |-> "object", iv |-> iv, salt |-> Text("salt"), enc |-> enc])),
        base64Encode(msgPackEncode(
            [t |-> "object", iv |-> iv, salt |-> salt, enc |-> enc])),
        base64Encode(msgPackEncode(
            [t |-> "object", iv |-> iv, salt |-> RandomBytes(8, 1), enc |-> enc])),
        base64Encode(msgPackEncode(
            [t |-> "object", iv |-> RandomBytes(16, 1), salt |-> salt, enc |-> enc]))}

\* ------------------------------------------------------------------ state

VARIABLES
    cookieOptions,   \* the attributes every handle is constructed with
    importable,      \* whether crypto.subtle.importKey resolves here
    now,             \* Date.now()
    jar,             \* the client's cookie of the configured name and scope
    reqCookie,       \* getCookie(ctx, name): the cookie the request carried
    handle,          \* the EncryptedSession of the request: rootKeyRaw, rootKey
    ncall,           \* calls made on handles so far
    last,            \* the latest call on the handle and how it ended
    expiredPending,  \* "thisRequest" / "earlierRequest": where a read found
                     \* the box expired; "none" once a cookie is written or a
                     \* later request has read
    tasks,           \* the calls in flight on the handle, where calls overlap
    imports,         \* assignments made to this.rootKey by calls in flight
    history          \* the set() calls of earlier requests, where the client
                     \* has kept every cookie it was sent

vars == <<cookieOptions, importable, now, jar, reqCookie, handle, ncall, last,
          expiredPending, tasks, imports, history>>

\* op: the method called; kind: what the caller got ("value", "null", "ok"
\* or the error thrown); cause: how mustGet ended in a read; val: the value a
\* read returned, or the cookie text set handed to setCookie; deleted: whether
\* the call issued deleteCookie; afterExpired: whether this read is the first
\* one since a read of an earlier request found the box expired; repeated:
\* whether a delete() directly follows a delete() of the same request;
\* afterSet: whether a delete() directly follows a set() of the same request
\* that wrote its cookie.
NoCall ==
    [op |-> "none", kind |-> "none", cause |-> "none", val |-> Undefined,
     deleted |-> FALSE, afterExpired |-> FALSE, repeated |-> FALSE,
     afterSet |-> FALSE]

\* Calls that may be in flight on one handle at a time.
Tasks == 1..MaxTasks

\* A call not yet made.  pc: "idle", "importing" (awaiting importKey),
\* "deriving" (awaiting deriveKey and what follows), "done"; rootKey: the
\* this.rootKey handed to deriveKey; kind, val, deleted: how the call ended.
IdleTask ==
    [pc |-> "idle", op |-> "none", value |-> Undefined, salt |-> EmptyBytes,
     iv |-> EmptyBytes, rootKey |-> Undefined, kind |-> "none",
     val |-> Undefined, deleted |-> FALSE]

\* The calls of a request run one after the other unless said otherwise.
NoTasks == [i \in Tasks |-> IdleTask]

\* issued: the cookie texts set() handed to setCookie in earlier requests;
\* passed: for each of them the secret of the handle, the value passed to
\* set() and the exp stored with it.
NoHistory == [issued |-> {}, passed |-> {}]

NewHandle(rootKeyRaw) == [rootKeyRaw |-> rootKeyRaw, rootKey |-> Undefined]

Init ==
    /\ cookieOptions \in CookieOptions
    /\ importable \in BOOLEAN
    /\ now = Ms(0)
    /\ jar = Undefined
    /\ reqCookie = Undefined
    /\ handle = NewHandle("A")
    /\ ncall = 0
    /\ last = NoCall
    /\ expiredPending = "none"
    /\ tasks = NoTasks
    /\ imports = 0
    /\ history = NoHistory

\* The client sends its next request, which arrives at the instant t; the
\* server constructs a handle for it.  A request is handled at one instant.
NewRequest(rootKeyRaw, t) ==
    /\ TimeLeq(now, t)
    /\ now' = t
    /\ reqCookie' = jar
    /\ handle' = NewHandle(rootKeyRaw)
    /\ last' = NoCall
    /\ expiredPending' =
           IF expiredPending = "none" THEN "none" ELSE "earlierRequest"
    /\ UNCHANGED <<history, tasks, imports, cookieOptions, importable, jar,
                   ncall>>

\* A read deleting the cookie on every failure, not only on expiry.
Read_DeletesOnAnyFailure(op, r) ==
    /\ ncall < MaxCalls
    /\ ncall' = ncall + 1
    /\ last' = [op |-> op, kind |-> r.kind,
                cause |-> mustGet(handle, reqCookie, now, importable).kind,
                val |-> r.val, deleted |-> r.deleted,
                afterExpired |-> (expiredPending = "earlierRequest"),
                repeated |-> FALSE, afterSet |-> FALSE]
    /\ jar' = IF r.kind # "value" THEN deleteCookie(jar, cookieOptions) ELSE jar
    /\ handle' = [handle EXCEPT !.rootKey = r.rootKey]
    /\ expiredPending' =
           IF r.deleted THEN "thisRequest"
           ELSE IF expiredPending = "earlierRequest" THEN "none"
           ELSE expiredPending
    /\ UNCHANGED <<history, tasks, imports, cookieOptions, importable, now,
                   reqCookie>>

\* A read: what it returns or throws, the delete it issues, the key it caches.
Read(op, r) ==
    /\ ncall < MaxCalls
    /\ ncall' = ncall + 1
    /\ last' = [op |-> op, kind |-> r.kind,
                cause |-> mustGet(handle, reqCookie, now, importable).kind,
                val |-> r.val, deleted |-> r.deleted,
                afterExpired |-> (expiredPending = "earlierRequest"),
                repeated |-> FALSE, afterSet |-> FALSE]
    /\ jar' = IF r.deleted THEN deleteCookie(jar, cookieOptions) ELSE jar
    /\ handle' = [handle EXCEPT !.rootKey = r.rootKey]
    /\ expiredPending' =
           IF r.deleted THEN "thisRequest"
           ELSE IF expiredPending = "earlierRequest" THEN "none"
           ELSE expiredPending
    /\ UNCHANGED <<history, tasks, imports, cookieOptions, importable, now,
                   reqCookie>>

MustGet == Read("mustGet", mustGet(handle, reqCookie, now, importable))

Get == Read("get", get(handle, reqCookie, now, importable))

\* set() dropping the client's cookie when it fails.
Set_ClearsOnFailure(value, salt, iv) ==
    LET r == set(handle, value, cookieOptions, now, salt, iv, importable)
    IN /\ ncall < MaxCalls
       /\ ncall' = ncall + 1
       /\ handle' = [handle EXCEPT !.rootKey = r.rootKey]
       /\ IF r.ok
          THEN /\ jar' = setCookie(jar, r.cookie, cookieOptions)
               /\ expiredPending' = "none"
               /\ last' = [NoCall EXCEPT !.op = "set", !.kind = "ok",
                                         !.val = r.cookie]
          ELSE /\ jar' = Undefined
               /\ UNCHANGED expiredPending
               /\ last' = [NoCall EXCEPT !.op = "set",
                                         !.kind = "ConfigurationError"]
       /\ UNCHANGED <<history, tasks, imports, cookieOptions, importable, now,
                      reqCookie>>

Set(value, salt, iv) ==
    LET r == set(handle, value, cookieOptions, now, salt, iv, importable)
    IN /\ ncall < MaxCalls
       /\ ncall' = ncall + 1
       /\ handle' = [handle EXCEPT !.rootKey = r.rootKey]
       /\ IF r.ok
          THEN /\ jar' = setCookie(jar, r.cookie, cookieOptions)
               /\ expiredPending' = "none"
               /\ last' = [NoCall EXCEPT !.op = "set", !.kind = "ok",
                                         !.val = r.cookie]
          ELSE /\ UNCHANGED <<jar, expiredPending>>
               /\ last' = [NoCall EXCEPT !.op = "set",
                                         !.kind = "ConfigurationError"]
       /\ UNCHANGED <<history, tasks, imports, cookieOptions, importable, now,
                      reqCookie>>

\* delete() rejecting when the client holds no cookie to remove.
Delete_ThrowsWhenAbsent ==
    /\ ncall < MaxCalls
    /\ ncall' = ncall + 1
    /\ jar' = deleteCookie(jar, cookieOptions)
    /\ last' = [NoCall EXCEPT !.op = "delete",
                              !.kind = IF jar = Undefined THEN "NotFound" ELSE "ok",
                              !.deleted = TRUE,
                              !.repeated = (last.op = "delete"),
                              !.afterSet = (last.op = "set" /\ last.kind = "ok")]
    /\ UNCHANGED <<history, tasks, imports, cookieOptions, importable, now,
                   reqCookie, handle, expiredPending>>

Delete ==
    /\ ncall < MaxCalls
    /\ ncall' = ncall + 1
    /\ jar' = deleteCookie(jar, cookieOptions)
    /\ last' = [NoCall EXCEPT !.op = "delete", !.kind = "ok", !.deleted = TRUE,
                              !.repeated = (last.op = "delete"),
                              !.afterSet = (last.op = "set" /\ last.kind = "ok")]
    /\ UNCHANGED <<history, tasks, imports, cookieOptions, importable, now,
                   reqCookie, handle, expiredPending>>

\* The client drops the cookie (its own expiry, or the user clearing it).
ClientEvict ==
    /\ jar # Undefined
    /\ jar' = Undefined
    /\ last' = NoCall
    /\ UNCHANGED <<history, tasks, imports, cookieOptions, importable, now,
                   reqCookie, handle, ncall, expiredPending>>

\* The expirable box a cookie written by set() holds, its exp and its val.
BoxIn(cookie) == BoxOf(cookie).enc.pt.v

ExpOf(cookie) == BoxIn(cookie).exp.n

ValOf(cookie) == BoxIn(cookie).val

Next ==
    \/ \E s \in Secrets, t \in Times : NewRequest(s, t)
    \/ MustGet
    \/ Get
    \/ \E v \in Values, d \in Draws : Set(v, d[1], d[2])
    \/ Delete
    \/ ClientEvict

Spec == Init /\ [][Next]_vars

\* ------------------------------------------------------------------ reads

\* The cookies set() writes on a handle of the given secret, under any
\* configuration, value, instant and draw.
Written ==
    {set(NewHandle(s), v, o, t, d[1], d[2], TRUE).cookie :
        s \in Secrets, v \in Values, o \in CookieOptions, t \in Times, d \in Draws}

\* The cookies set() wrote, altered by the client.
Altered == UNION {Alterations(c) : c \in Written}

\* What a request can carry as the cookie: nothing, a cookie set() wrote,
\* such a cookie altered by the client, or a text the client made up.
Carried ==
    {Undefined} \cup Written \cup Altered \cup Forged

\* The handle's scope: the default one, a path or a domain of its own.
ReadOptions == {o \in CookieOptions : o.maxAge = Num(Ms(1)) /\ o.expires = Undefined}

\* A request arrives with any cookie, at any instant, for a handle of any
\* secret; the handle is then read.
InitRead ==
    /\ cookieOptions \in ReadOptions
    /\ importable \in BOOLEAN
    /\ now \in Times
    /\ reqCookie \in Carried
    /\ jar = reqCookie
    /\ handle \in {NewHandle(s) : s \in Secrets}
    /\ ncall = 0
    /\ last = NoCall
    /\ expiredPending = "none"
    /\ tasks = NoTasks
    /\ imports = 0
    /\ history = NoHistory

NextRead == MustGet \/ Get

SpecRead == InitRead /\ [][NextRead]_vars

\* The cookies set() writes for an empty payload.
WrittenEmpty ==
    {set(NewHandle(s), v, o, t, d[1], d[2], TRUE).cookie :
        s \in Secrets, v \in EmptyPayloads, o \in CookieOptions, t \in Times,
        d \in Draws}

\* A request arrives with a cookie set() wrote for an empty payload, at any
\* instant, for a handle of any secret; the handle is then read.
InitEmpty ==
    /\ cookieOptions \in CookieOptions
    /\ importable \in BOOLEAN
    /\ now \in Times
    /\ reqCookie \in WrittenEmpty
    /\ jar = reqCookie
    /\ handle \in {NewHandle(s) : s \in Secrets}
    /\ ncall = 0
    /\ last = NoCall
    /\ expiredPending = "none"
    /\ tasks = NoTasks
    /\ imports = 0
    /\ history = NoHistory

SpecEmpty == InitEmpty /\ [][NextRead]_vars

\* ------------------------------------------------------------------ writes

\* Cookies an earlier response stored at the client: the ones set({userId:
\* 42}) wrote at the instant 0 on a handle of secret A.
Stored ==
    {set(NewHandle("A"), Obj("userId42"), o, Ms(0), d[1], d[2], TRUE).cookie :
        o \in CookieOptions, d \in Draws}

\* A request arrives, carrying the cookie the client holds or none, for a
\* handle of any secret; the handle is then written and deleted.
InitWrite ==
    /\ cookieOptions \in CookieOptions
    /\ importable \in BOOLEAN
    /\ now \in Times
    /\ reqCookie \in {Undefined} \cup Stored
    /\ jar = reqCookie
    /\ handle \in {NewHandle(s) : s \in Secrets}
    /\ ncall = 0
    /\ last = NoCall
    /\ expiredPending = "none"
    /\ tasks = NoTasks
    /\ imports = 0
    /\ history = NoHistory

NextWrite ==
    \/ \E v \in Values, d \in Draws : Set(v, d[1], d[2])
    \/ Delete

SpecWrite == InitWrite /\ [][NextWrite]_vars

\* ------------------------------------------------------------------ calls in flight

\* A call that has ended.
Done(task, kind, val, deleted) ==
    [task EXCEPT !.pc = "done", !.kind = kind, !.val = val, !.deleted = deleted]

\* A call is made while others are in flight.  It runs up to its first
\* await: a read that fails before _deriveKey ends at once; otherwise the
\* call awaits importKey where this.rootKey is unset, deriveKey where it is
\* set.  Calls are numbered in the order they are made.
Begin(i, op, value, salt, iv) ==
    LET task == [IdleTask EXCEPT !.op = op, !.value = value, !.salt = salt,
                                 !.iv = iv]
        r == IF op = "get" THEN get(handle, reqCookie, now, importable)
             ELSE mustGet(handle, reqCookie, now, importable)
    IN /\ tasks[i].pc = "idle"
       /\ IF i = 1 THEN TRUE ELSE tasks[i - 1].pc # "idle"
       /\ ncall' = ncall + 1
       /\ tasks' =
              [tasks EXCEPT ![i] =
                  IF op # "set" /\ ~IsBox(reqCookie)
                      THEN Done(task, r.kind, r.val, r.deleted)
                  ELSE IF Falsy(handle.rootKey)
                      THEN [task EXCEPT !.pc = "importing"]
                  ELSE [task EXCEPT !.pc = "deriving", !.rootKey = handle.rootKey]]
       /\ UNCHANGED <<history, imports, cookieOptions, importable, now, jar,
                      reqCookie, handle, last, expiredPending>>

\* importKey resolving into a cache shared by the handles of every secret.
ImportResolved_SharedKey(i) ==
    /\ tasks[i].pc = "importing"
    /\ IF importable
       THEN LET rootKey == importKey("A")
            IN /\ handle' = [handle EXCEPT !.rootKey = rootKey]
               /\ imports' = imports + 1
               /\ tasks' = [tasks EXCEPT ![i].pc = "deriving",
                                         ![i].rootKey = rootKey]
       ELSE /\ tasks' =
                   [tasks EXCEPT ![i] =
                       IF tasks[i].op = "get"
                       THEN Done(tasks[i], "null", Null, FALSE)
                       ELSE Done(tasks[i], "ConfigurationError", Undefined, FALSE)]
            /\ UNCHANGED <<handle, imports>>
    /\ UNCHANGED <<history, cookieOptions, importable, now, jar, reqCookie,
                   ncall, last, expiredPending>>

\* The importKey a call awaits settles: resolved, the key is assigned to
\* this.rootKey and handed to deriveKey at once; rejected, the call fails.
ImportResolved(i) ==
    /\ tasks[i].pc = "importing"
    /\ IF importable
       THEN LET rootKey == importKey(handle.rootKeyRaw)
            IN /\ handle' = [handle EXCEPT !.rootKey = rootKey]
               /\ imports' = imports + 1
               /\ tasks' = [tasks EXCEPT ![i].pc = "deriving",
                                         ![i].rootKey = rootKey]
       ELSE /\ tasks' =
                   [tasks EXCEPT ![i] =
                       IF tasks[i].op = "get"
                       THEN Done(tasks[i], "null", Null, FALSE)
                       ELSE Done(tasks[i], "ConfigurationError", Undefined, FALSE)]
            /\ UNCHANGED <<handle, imports>>
    /\ UNCHANGED <<history, cookieOptions, importable, now, jar, reqCookie,
                   ncall, last, expiredPending>>

\* deriveKey resolves and the call runs to its end with the key it handed
\* over: a read decrypts, decodes and checks, a set() encrypts and writes.
Finish(i) ==
    LET task == tasks[i]
        this == [handle EXCEPT !.rootKey = task.rootKey]
        w == set(this, task.value, cookieOptions, now, task.salt, task.iv,
                 importable)
        r == IF task.op = "get" THEN get(this, reqCookie, now, importable)
             ELSE mustGet(this, reqCookie, now, importable)
    IN /\ task.pc = "deriving"
       /\ IF task.op = "set"
          THEN /\ jar' = setCookie(jar, w.cookie, cookieOptions)
               /\ tasks' = [tasks EXCEPT ![i] = Done(task, "ok", w.cookie, FALSE)]
          ELSE /\ jar' = IF r.deleted THEN deleteCookie(jar, cookieOptions)
                          ELSE jar
               /\ tasks' = [tasks EXCEPT ![i] = Done(task, r.kind, r.val, r.deleted)]
       /\ UNCHANGED <<history, imports, cookieOptions, importable, now, reqCookie,
                      handle, ncall, last, expiredPending>>

\* A request arrives, carrying the cookie the client holds or none, at the
\* instant the cookie was written or long after; calls are then made on its
\* handle without awaiting one another.
InitConc ==
    /\ cookieOptions \in ReadOptions
    /\ importable \in BOOLEAN
    /\ now \in {Ms(0), MaxDate}
    /\ reqCookie \in {Undefined} \cup Stored
    /\ jar = reqCookie
    /\ handle \in {NewHandle(s) : s \in Secrets}
    /\ ncall = 0
    /\ last = NoCall
    /\ expiredPending = "none"
    /\ tasks = NoTasks
    /\ imports = 0
    /\ history = NoHistory

NextConc ==
    \E i \in Tasks :
        \/ \E op \in {"get", "mustGet"} :
               Begin(i, op, Undefined, EmptyBytes, EmptyBytes)
        \/ \E d \in Draws : Begin(i, "set", Obj("userId42"), d[1], d[2])
        \/ ImportResolved(i)
        \/ Finish(i)

SpecConc == InitConc /\ [][NextConc]_vars

\* ------------------------------------------------------------------ histories

\* The set() calls an earlier request can have made, at the instant 0: the
\* secret of its handle, the value passed and the draw.
Earlier == [rootKeyRaw : Secrets, value : Values, draw : Draws]

\* The history once the call c of set() has written its cookie.
Recorded(h, c, options) ==
    LET w == set(NewHandle(c.rootKeyRaw), c.value, options, Ms(0), c.draw[1],
                 c.draw[2], TRUE)
    IN [issued |-> h.issued \cup {w.cookie},
        passed |-> h.passed \cup {[rootKeyRaw |-> c.rootKeyRaw, value |-> c.value,
                                   exp |-> expiresAt(options, Ms(0))]}]

\* The histories of no, one or two calls of set().
Histories(options) ==
    {NoHistory}
        \cup {Recorded(Recorded(NoHistory, a, options), b, options) :
                  a \in Earlier, b \in Earlier}

\* What a client that knows no secret can send as the cookie: nothing, a
\* cookie it was sent, such a cookie altered, or a text it made up.
CanSend(h) ==
    {Undefined} \cup h.issued \cup UNION {Alterations(c) : c \in h.issued}
        \cup Forged

\* After the set() calls of the history, a request arrives at any instant
\* with whatever cookie the client can send, for a handle of any secret; the
\* handle is then read.  The handles seal for one second, under the
\* default scope.
InitHist ==
    /\ cookieOptions \in {o \in ReadOptions : DefaultScope(o)}
    /\ importable \in BOOLEAN
    /\ now \in Times
    /\ history \in Histories(cookieOptions)
    /\ reqCookie \in CanSend(history)
    /\ jar = reqCookie
    /\ handle \in {NewHandle(s) : s \in Secrets}
    /\ ncall = 0
    /\ last = NoCall
    /\ expiredPending = "none"
    /\ tasks = NoTasks
    /\ imports = 0

SpecHist == InitHist /\ [][NextRead]_vars

\* ------------------------------------------------------------------ claims

\* A read of the cookie that set(v), on a handle of the same secret and with
\* the same attributes, wrote at the instant t with the draw d.
ReadsWhatSetWrote(v, t, d) ==
    LET w == set(NewHandle(handle.rootKeyRaw), v, cookieOptions, t, d[1], d[2],
                 importable)
    IN w.ok /\ w.cookie = reqCookie

\* A payload that is not falsy and that msgpack reads back equal.
Faithful(v) == ~Falsy(v) /\ PayloadRepr(v) = v

\* C1, as stated: for every payload v and every expiry configuration, a get()
\* that reads the cookie set(v) wrote, with the same secret and not later
\* than the expiry set computed, returns a value equal to v.
C1_RoundTripAnyPayload ==
    last.op = "get" =>
        \A v \in Values, t \in Times, d \in Draws :
            (ReadsWhatSetWrote(v, t, d) /\ TimeLeq(now, expiresAt(cookieOptions, t)))
                => (last.kind = "value" /\ last.val = v)

\* C1, amended: the same for every payload v that is not falsy and that the
\* msgpack encoding reads back equal.
C1_RoundTrip ==
    last.op = "get" =>
        \A v \in Values, t \in Times, d \in Draws :
            (Faithful(v) /\ ReadsWhatSetWrote(v, t, d)
                /\ TimeLeq(now, expiresAt(cookieOptions, t)))
                => (last.kind = "value" /\ last.val = v)

\* A get() returned {userId: 42} from the cookie set wrote, at the very
\* instant of its expiry.
C1_Witness ==
    /\ last.op = "get" /\ last.kind = "value" /\ last.val = Obj("userId42")
    /\ \E t \in Times, d \in Draws :
           /\ ReadsWhatSetWrote(Obj("userId42"), t, d)
           /\ now = expiresAt(cookieOptions, t)
           /\ TimeLess(t, now)

IsRead == last.op \in {"get", "mustGet"}

\* The request carries a cookie as set() wrote it on a handle of the secret.
CarriesWrittenWith(rootKeyRaw) ==
    Sealed(reqCookie) /\ BoxOf(reqCookie).enc.key.root = rootKeyRaw

\* The request carries a cookie set() wrote, then altered: a bit of enc
\* flipped, or a salt or an iv that is not the one that sealed it.
CarriesAltered ==
    /\ IsBox(reqCookie)
    /\ LET box == BoxOf(reqCookie)
       IN /\ box.enc.kind = "aesgcm"
          /\ box.enc.flipped \/ box.salt # box.enc.key.salt \/ box.iv # box.enc.iv

\* C2: a cookie set wrote, with one bit of enc flipped or with the salt or
\* the iv replaced by another value, makes mustGet fail as Unauthenticated or
\* Malformed on a handle whose key can be imported; no read returns a value.
C2_TamperDetected ==
    (IsRead /\ importable /\ CarriesAltered)
        => (last.cause \in {"Unauthenticated", "Malformed"} /\ last.kind # "value")

\* mustGet, on a handle of the secret that sealed it, rejected an unexpired
\* cookie whose salt the client had replaced.
C2_Witness ==
    /\ last.op = "mustGet" /\ last.kind = "Unauthenticated"
    /\ CarriesAltered
    /\ LET box == BoxOf(reqCookie)
       IN /\ box.salt # box.enc.key.salt
          /\ box.enc.key.root = handle.rootKeyRaw
          /\ ~Falsy(ValOf(reqCookie))
          /\ TimeLess(now, ExpOf(reqCookie))

\* C3: a cookie set wrote on a handle of secret A makes mustGet fail as
\* Unauthenticated or Malformed on a handle of any other secret B whose key
\* can be imported; no read returns a value.
C3_WrongSecret ==
    (IsRead /\ importable
        /\ \E s \in Secrets \ {handle.rootKeyRaw} : CarriesWrittenWith(s))
        => (last.cause \in {"Unauthenticated", "Malformed"} /\ last.kind # "value")

\* mustGet on a handle of secret B rejected the unexpired cookie a handle of
\* secret A wrote.
C3_Witness ==
    /\ last.op = "mustGet" /\ last.kind = "Unauthenticated"
    /\ handle.rootKeyRaw = "B"
    /\ CarriesWrittenWith("A")
    /\ ~Falsy(ValOf(reqCookie))
    /\ TimeLess(now, ExpOf(reqCookie))

\* C4: for an authentic box with a non-empty value, a read fails as Expired
\* exactly when exp < now; with exp >= now (exp = now included) it returns
\* the value.
C4_ExpiryBoundary ==
    (IsRead /\ importable /\ CarriesWrittenWith(handle.rootKeyRaw)
        /\ ~Falsy(ValOf(reqCookie)))
        => /\ last.cause = "Expired" <=> TimeLess(ExpOf(reqCookie), now)
           /\ ~TimeLess(ExpOf(reqCookie), now)
                  => (last.kind = "value" /\ last.val = ValOf(reqCookie))

\* mustGet returned the value of a box read at the very instant exp = now.
C4_Witness ==
    /\ last.op = "mustGet" /\ last.kind = "value"
    /\ CarriesWrittenWith(handle.rootKeyRaw)
    /\ ExpOf(reqCookie) = now

\* C6: get() never throws: it returns the value mustGet() returns, and null
\* in every case in which mustGet() throws, whatever the cookie and also when
\* the root key cannot be imported.
C6_GetNeverFails ==
    last.op = "get" =>
        LET m == mustGet(handle, reqCookie, now, importable)
        IN /\ last.kind \in {"value", "null"}
           /\ last.kind = "value" <=> m.kind = "value"
           /\ last.kind = "value" => last.val = m.val
           /\ last.kind = "null" => last.val = Null

\* get() returned null where the import of the root key failed.
C6_Witness ==
    /\ last.op = "get" /\ last.kind = "null" /\ last.val = Null
    /\ last.cause = "ConfigurationError"

\* C7, as stated: a cookie that is not valid base64 text, or that decodes to
\* something other than a box of three byte-string fields, makes mustGet fail
\* as Malformed or NotFound and as nothing else.
C7_MalformedOrNotFound ==
    (last.op = "mustGet" /\ reqCookie # Undefined
        /\ (reqCookie.chars = "mixed" \/ ~IsBox(reqCookie)))
        => last.kind \in {"Malformed", "NotFound"}

\* C5, as stated: after a read found the box expired, the next read of the
\* client's cookie (the first one of a later request, no cookie written in
\* between) reports NotFound.
C5_NextReadNotFound == last.afterExpired => last.cause = "NotFound"

\* The lifetime in milliseconds of a configured maxAge.
MaxAgeMs == Ms(cookieOptions.maxAge.n[2] * 1000)

\* C8, as stated, for the payloads the round trip preserves: with maxAge = m
\* configured and set(v) performed at t0, a get() at t <= t0 + m*1000 returns
\* v, and a get() at t > t0 + m*1000 returns null and leaves the client's
\* cookie cleared.
C8_MaxAgeLifetime ==
    (last.op = "get" /\ cookieOptions.maxAge.t = "number") =>
        \A v \in Values, t0 \in Times, d \in Draws :
            (Faithful(v) /\ ReadsWhatSetWrote(v, t0, d)) =>
                IF TimeLeq(now, TimeAdd(t0, MaxAgeMs))
                THEN last.kind = "value" /\ last.val = v
                ELSE last.kind = "null" /\ (jar \in {Undefined, reqCookie} => jar = Undefined)

NoExpiry == cookieOptions.maxAge = Undefined /\ cookieOptions.expires = Undefined

\* C9, as stated: with neither maxAge nor expires configured, set(v) stores
\* exp = Number.MAX_SAFE_INTEGER, and every later get() returns v, never
\* finds the box expired and never deletes the cookie.
C9_NeverExpiresAnyPayload ==
    NoExpiry =>
        /\ (last.op = "set" /\ last.kind = "ok")
               => ExpOf(last.val) = MAX_SAFE_INTEGER
        /\ last.op = "get" =>
               \A v \in Values, t \in Times, d \in Draws :
                   ReadsWhatSetWrote(v, t, d) =>
                       /\ last.kind = "value" /\ last.val = v
                       /\ last.cause # "Expired" /\ ~last.deleted

\* C9, amended: the same, where get() returns v for every payload v that is
\* not falsy and that the msgpack encoding reads back equal.
C9_NeverExpires ==
    NoExpiry =>
        /\ (last.op = "set" /\ last.kind = "ok")
               => ExpOf(last.val) = MAX_SAFE_INTEGER
        /\ last.op = "get" =>
               \A v \in Values, t \in Times, d \in Draws :
                   ReadsWhatSetWrote(v, t, d) =>
                       /\ Faithful(v) => (last.kind = "value" /\ last.val = v)
                       /\ last.cause # "Expired" /\ ~last.deleted

\* With no expiry configured, a get() at the largest instant a clock can show
\* returned {userId: 42} from the cookie set wrote at the instant 0.
C9_Witness ==
    /\ NoExpiry /\ now = MaxDate
    /\ last.op = "get" /\ last.kind = "value" /\ last.val = Obj("userId42")
    /\ \E d \in Draws : ReadsWhatSetWrote(Obj("userId42"), Ms(0), d)
    /\ jar = reqCookie

\* C10, as stated: set stores exp = now + maxAge*1000 whenever maxAge is
\* configured (0 included, and before expires); otherwise the configured
\* expires instant; otherwise Number.MAX_SAFE_INTEGER.
C10_ExpiryPolicy ==
    (last.op = "set" /\ last.kind = "ok") =>
        ExpOf(last.val) =
            IF cookieOptions.maxAge.t = "number" THEN TimeAdd(now, MaxAgeMs)
            ELSE IF cookieOptions.expires.t = "Date" THEN cookieOptions.expires.ms
            ELSE MAX_SAFE_INTEGER

\* C11: delete() completes without error whether or not the client holds a
\* cookie, and a delete() directly after a delete() leaves the client's
\* cookie as the first one left it.
C11_DeleteIdempotent ==
    [][(last'.op = "delete" /\ ncall' = ncall + 1)
           => /\ last'.kind = "ok"
              /\ last.op = "delete" => jar' = jar]_vars

\* Two delete() in a row on a request that carried a cookie: the client's
\* cookie is gone and both completed.
C11_Witness ==
    /\ last.op = "delete" /\ last.repeated /\ last.kind = "ok"
    /\ reqCookie # Undefined /\ jar = Undefined

\* C12: a set() that succeeds has written one cookie, sealed under the
\* handle's secret, which the client then holds under the configured scope
\* (or drops at once where Max-Age=0 is configured); a set() that fails has
\* written nothing, and the client's cookie is what it was.
C12_SetAllOrNothing ==
    [][(last'.op = "set" /\ ncall' = ncall + 1)
           => IF last'.kind = "ok"
              THEN /\ Sealed(last'.val)
                   /\ BoxOf(last'.val).enc.key.root = handle.rootKeyRaw
                   /\ jar' = IF cookieOptions.maxAge = Num(Ms(0)) THEN Undefined
                              ELSE last'.val
              ELSE jar' = jar]_vars

\* A set() failed on a request whose client holds a stored cookie, and the
\* client still holds it.
C12_Witness ==
    /\ last.op = "set" /\ last.kind = "ConfigurationError"
    /\ jar \in Stored /\ jar = reqCookie

\* Whether a cookie text decodes to an outer box: a value that is an object.
IsOuterBox(cookie) ==
    /\ ~Falsy(cookie)
    /\ msgPackDecode(base64Decode(cookie)).ok
    /\ BoxOf(cookie).t = "object"

\* Whether a field of a box is a byte string of the prescribed length.
HasBytesOfLength(box, name, len) ==
    /\ IsUint8Array(Prop(box, name))
    /\ box[name].kind = "random" => box[name].len = len

\* C13, as stated: a decoded outer box whose salt is not 16 bytes, whose iv
\* is not 12 bytes, or whose salt, iv or enc is not a byte string makes
\* mustGet fail as Malformed with no key derivation started: the root key
\* is not imported.
C13_ValidatedBeforeDecryption ==
    (last.op = "mustGet" /\ IsOuterBox(reqCookie)
        /\ LET box == BoxOf(reqCookie)
           IN \/ ~HasBytesOfLength(box, "salt", 16)
              \/ ~HasBytesOfLength(box, "iv", 12)
              \/ ~IsUint8Array(Prop(box, "enc")))
        => (last.kind = "Malformed" /\ handle.rootKey = Undefined)

\* C14, as stated: a read reports the failure of the first stage that fails:
\* (1, 2) a cookie that does not decode to a box of three byte strings fails
\* in decoding or as NotFound or Malformed; (3) a box that decodes but is not
\* authentic fails as Unauthenticated; (4) an authentic box with an empty val
\* fails as Malformed and causes no deletion, whatever its exp, and only an
\* authentic box with a non-empty val is judged expired.
C14_ValidationOrder ==
    (IsRead /\ importable /\ reqCookie # Undefined) =>
        IF ~IsBox(reqCookie)
        THEN last.cause \in {"DecodeFault", "NotFound", "Malformed"}
        ELSE IF ~CarriesWrittenWith(handle.rootKeyRaw)
        THEN last.cause = "Unauthenticated"
        ELSE IF Falsy(ValOf(reqCookie))
        THEN last.cause = "Malformed" /\ ~last.deleted
        ELSE last.cause \in {"Expired", "value"}

\* C15: a get() or mustGet() that ends otherwise than as Expired (a value,
\* NotFound, Malformed, Unauthenticated or any other failure) leaves the
\* client's cookie as it was and issues no delete; a read that issues a
\* delete has found the box expired.
C15_ReadsLeaveCookie ==
    [][(last'.op \in {"get", "mustGet"} /\ ncall' = ncall + 1)
           => /\ last'.cause # "Expired" => (jar' = jar /\ ~last'.deleted)
              /\ last'.deleted => last'.cause = "Expired"]_vars

\* mustGet rejected an altered cookie as Unauthenticated and the client
\* still holds it.
C15_Witness ==
    /\ last.op = "mustGet" /\ last.kind = "Unauthenticated" /\ ~last.deleted
    /\ CarriesAltered /\ jar = reqCookie /\ DefaultScope(cookieOptions)

\* C16: for every empty payload v (0, the empty text, false, null,
\* undefined), set(v) succeeds wherever the root key can be imported and
\* writes a sealed cookie holding v, and a read of such a cookie before its
\* expiry fails as Malformed: mustGet throws it, get returns null, and
\* neither returns v.
C16_EmptyPayloadRejected ==
    /\ importable =>
           \A v \in EmptyPayloads, d \in Draws :
               LET w == set(handle, v, cookieOptions, now, d[1], d[2], importable)
               IN w.ok /\ Sealed(w.cookie) /\ ValOf(w.cookie) = PayloadRepr(v)
    /\ (IsRead /\ importable /\ CarriesWrittenWith(handle.rootKeyRaw)
           /\ ValOf(reqCookie) \in {PayloadRepr(v) : v \in EmptyPayloads}
           /\ TimeLeq(now, ExpOf(reqCookie)))
           => /\ last.cause = "Malformed"
              /\ last.kind = IF last.op = "get" THEN "null" ELSE "Malformed"
              /\ ~last.deleted

\* mustGet rejected as Malformed the unexpired cookie set("") wrote.
C16_Witness ==
    /\ last.op = "mustGet" /\ last.kind = "Malformed"
    /\ CarriesWrittenWith(handle.rootKeyRaw)
    /\ ValOf(reqCookie) = EmptyString
    /\ TimeLess(now, ExpOf(reqCookie))

\* How a call would end if it ran alone, on the same cookie.
Alone(task) ==
    LET this == NewHandle(handle.rootKeyRaw)
        w == set(this, task.value, cookieOptions, now, task.salt, task.iv,
                 importable)
        r == IF task.op = "get" THEN get(this, reqCookie, now, importable)
             ELSE mustGet(this, reqCookie, now, importable)
    IN IF task.op # "set" THEN [kind |-> r.kind, val |-> r.val]
       ELSE IF w.ok THEN [kind |-> "ok", val |-> w.cookie]
       ELSE [kind |-> "ConfigurationError", val |-> Undefined]

\* this.rootKey is unset or the import of the handle's secret.
KeyIsImport == handle.rootKey \in {Undefined, importKey(handle.rootKeyRaw)}

\* Every call that has ended ended as it would have alone.
OutcomesAsAlone ==
    \A i \in Tasks :
        tasks[i].pc = "done" =>
            [kind |-> tasks[i].kind, val |-> tasks[i].val] = Alone(tasks[i])

\* C17, as stated: under every interleaving of calls on one handle,
\* this.rootKey is assigned at most once, is at every moment unset or the
\* import of the handle's secret, and every call ends as it would alone.
C17_InitializedOnce == imports <= 1 /\ KeyIsImport /\ OutcomesAsAlone

\* C17, amended: this.rootKey is assigned once by each call that found it
\* unset when it began (more than once when first uses overlap), always with
\* the import of the handle's secret; it is at every moment unset or that
\* import, and every call ends as it would alone.
C17_ConcurrentUse ==
    /\ KeyIsImport
    /\ OutcomesAsAlone
    /\ imports = 0 <=> handle.rootKey = Undefined
    /\ imports <= Cardinality({i \in Tasks : tasks[i].rootKey # Undefined})

\* Two first uses overlapped, a get() and a set(): both imported the key,
\* the get() returned the stored value and the set() wrote its cookie.
C17_Witness ==
    /\ imports = 2
    /\ \E i, j \in Tasks :
           /\ tasks[i].pc = "done" /\ tasks[i].op = "get"
           /\ tasks[i].kind = "value" /\ tasks[i].val = Obj("userId42")
           /\ tasks[j].pc = "done" /\ tasks[j].op = "set"
           /\ tasks[j].kind = "ok" /\ jar = tasks[j].val

\* C18, as stated: a value a read returns is a value an earlier set() was
\* passed on a handle of the same secret, stored with an exp that is not
\* earlier than the instant of the read, whatever the client sent.
C18_ReturnsWhatWasPassed ==
    (IsRead /\ last.kind = "value") =>
        \E p \in history.passed :
            /\ p.rootKeyRaw = handle.rootKeyRaw
            /\ p.value = last.val
            /\ TimeLeq(now, p.exp)

\* C18, amended: a value a read returns is what the msgpack encoding reads
\* back of a value an earlier set() was passed on a handle of the same
\* secret, stored with an exp that is not earlier than the instant of the
\* read, whatever the client sent.
C18_Integrity ==
    (IsRead /\ last.kind = "value") =>
        \E p \in history.passed :
            /\ p.rootKeyRaw = handle.rootKeyRaw
            /\ PayloadRepr(p.value) = last.val
            /\ TimeLeq(now, p.exp)

\* After one set() on a handle of each secret, a read on a handle of secret
\* B returned, at the instant of its expiry, the value passed under B.
C18_Witness ==
    /\ IsRead /\ last.kind = "value" /\ last.val = Obj("userId42")
    /\ handle.rootKeyRaw = "B"
    /\ \E p, q \in history.passed :
           /\ p.rootKeyRaw = "A" /\ q.rootKeyRaw = "B" /\ q.value = last.val
           /\ p.value # q.value /\ q.exp = now

\* C19, as stated: under every configuration (a path or a domain of its own
\* included), when delete() directly follows a set() that wrote its cookie
\* on the same handle, the client's next request finds no session:
\* mustGet() reports NotFound and get() returns null.
C19_DeleteRemovesWhatSetWrote ==
    [][(last.op = "delete" /\ last.afterSet
           /\ \E s \in Secrets, t \in Times : NewRequest(s, t))
           => /\ mustGet(handle', reqCookie', now', importable').kind = "NotFound"
              /\ get(handle', reqCookie', now', importable').kind = "null"]_vars

====
